---- MODULE Spec2Model ----
(***************************************************************************)
(* vefixer: find Python virtual environments and migrate them to a new     *)
(* manager (src/src/vefixer/__init__.py).                                  *)
(*                                                                         *)
(* A path is the tuple pathlib calls Path.parts: an absolute path starts   *)
(* with the component "/".  A string is a tuple of one-character strings   *)
(* where the code looks inside it (the version regex, the substring test   *)
(* of the dry run, the text a command prints); Chars spells the names.     *)
(***************************************************************************)
EXTENDS Integers, Sequences, FiniteSets, TLC

\* ------------------------------------------------------------------ bounds
\* Symbolic links followed by one resolve() before it gives up.
MaxLinks == 3
\* Longest component sequence handed to extract_python_version on its own.
MaxParts == 4

\* ------------------------------------------------------------------ strings
None == "None"

\* how each name of the model is spelled
Chars ==
  "/" :> <<"/">> @@
  "w" :> <<"w">> @@
  "a" :> <<"a">> @@
  "b" :> <<"b">> @@
  "venv" :> <<"v","e","n","v">> @@
  "bin" :> <<"b","i","n">> @@
  "lib" :> <<"l","i","b">> @@
  "python" :> <<"p","y","t","h","o","n">> @@
  "python3" :> <<"p","y","t","h","o","n","3">> @@
  "3.10" :> <<"3",".","1","0">> @@
  "3.10.7" :> <<"3",".","1","0",".","7">> @@
  "3.10.7.1" :> <<"3",".","1","0",".","7",".","1">> @@
  "3." :> <<"3",".">> @@
  "3" :> <<"3">> @@
  "3x10" :> <<"3","x","1","0">> @@
  "rtx" :> <<"r","t","x">> @@
  "mise" :> <<"m","i","s","e">> @@
  "installs" :> <<"i","n","s","t","a","l","l","s">> @@
  "pyenv" :> <<"p","y","e","n","v">> @@
  "versions" :> <<"v","e","r","s","i","o","n","s">> @@
  "usr" :> <<"u","s","r">> @@
  "tmp" :> <<"t","m","p">> @@
  "blah" :> <<"b","l","a","h">> @@
  "OK" :> <<"O","K">> @@
  "None" :> <<"N","o","n","e">> @@
  "dist" :> <<"d","i","s","t">> @@
  "lnk" :> <<"l","n","k">> @@
  "locked" :> <<"l","o","c","k","e","d">> @@
  "administrator" :> <<"a","d","m","i","n","i","s","t","r","a","t","o","r">> @@
  "eng-tools" :> <<"e","n","g","-","t","o","o","l","s">> @@
  "docker" :> <<"d","o","c","k","e","r">> @@
  "requirements.txt" :> <<"r","e","q","u","i","r","e","m","e","n","t","s",".","t","x","t">> @@
  "pdm.lock" :> <<"p","d","m",".","l","o","c","k">> @@
  ".rtx.toml" :> <<".","r","t","x",".","t","o","m","l">> @@
  ".mise.toml" :> <<".","m","i","s","e",".","t","o","m","l">>

Digits == {"0","1","2","3","4","5","6","7","8","9"}
Whitespace == {" ", "\n", "\t"}

RECURSIVE Join(_, _)
\* "/".join(parts), as characters
Join(parts, sep) ==
  IF parts = <<>> THEN <<>>
  ELSE IF Len(parts) = 1 THEN Chars[parts[1]]
  ELSE Chars[parts[1]] \o sep \o Join(Tail(parts), sep)

IsAbs(p) == p # <<>> /\ p[1] = "/"

\* str(path)
Str(p) == IF IsAbs(p) THEN <<"/">> \o Join(Tail(p), <<"/">>) ELSE Join(p, <<"/">>)

\* needle in hay
Contains(hay, needle) ==
  \E i \in 0..(Len(hay) - Len(needle)) :
    \A j \in 1..Len(needle) : hay[i + j] = needle[j]

RECURSIVE LStrip(_)
LStrip(s) == IF s # <<>> /\ s[1] \in Whitespace THEN LStrip(Tail(s)) ELSE s

RECURSIVE RStrip(_)
RStrip(s) ==
  IF s # <<>> /\ s[Len(s)] \in Whitespace THEN RStrip(SubSeq(s, 1, Len(s) - 1)) ELSE s

\* str.strip()
Strip(s) == RStrip(LStrip(s))

\* the name a run of characters spells ("?" for a name outside the vocabulary)
NameOf(cs) ==
  IF \E n \in DOMAIN Chars : Chars[n] = cs
  THEN CHOOSE n \in DOMAIN Chars : Chars[n] = cs
  ELSE "?"

RECURSIVE Split(_, _)
\* the components between slashes, empty ones dropped (cur is the one being read)
Split(s, cur) ==
  IF s = <<>> THEN (IF cur = <<>> THEN <<>> ELSE <<NameOf(cur)>>)
  ELSE IF s[1] = "/"
       THEN (IF cur = <<>> THEN <<>> ELSE <<NameOf(cur)>>) \o Split(Tail(s), <<>>)
       ELSE Split(Tail(s), Append(cur, s[1]))

\* Path(text)
PathOf(s) ==
  IF s # <<>> /\ s[1] = "/" THEN <<"/">> \o Split(s, <<>>) ELSE Split(s, <<>>)

\* ------------------------------------------------------------------ version
\* one or more digits from position i; the position after them, 0 if none
RECURSIVE DigitsEnd(_, _)
DigitsEnd(s, i) ==
  IF i <= Len(s) /\ s[i] \in Digits
  THEN (IF i + 1 <= Len(s) /\ s[i + 1] \in Digits THEN DigitsEnd(s, i + 1) ELSE i + 1)
  ELSE 0

\* the whole of s is \d+\.\d+(\.\d+)?
FullVersion(s) ==
  LET a == DigitsEnd(s, 1) IN
  /\ a # 0
  /\ a <= Len(s) /\ s[a] = "."
  /\ LET b == DigitsEnd(s, a + 1) IN
       /\ b # 0
       /\ \/ b = Len(s) + 1
          \/ /\ b <= Len(s) /\ s[b] = "."
             /\ DigitsEnd(s, b + 1) = Len(s) + 1

\* python_version_pattern.match(part): $ also matches before a final newline
PatternMatch(s) ==
  \/ FullVersion(s)
  \/ s # <<>> /\ s[Len(s)] = "\n" /\ FullVersion(SubSeq(s, 1, Len(s) - 1))

\* True or (falling off the end) None; TRUE and FALSE here
is_a_version(part) == PatternMatch(Chars[part])

RECURSIVE extract_from(_, _)
\* the loop of extract_python_version from index i on:
\* [raised |-> exception or None, value |-> the version or None]
extract_from(parts, i) ==
  IF i > Len(parts) THEN [raised |-> None, value |-> None]
  ELSE IF parts[i] = "python"
       THEN IF i + 1 > Len(parts)
            THEN [raised |-> "IndexError", value |-> None]
            ELSE IF is_a_version(parts[i + 1])
                 THEN [raised |-> None, value |-> parts[i + 1]]
                 ELSE extract_from(parts, i + 1)
       ELSE extract_from(parts, i + 1)

extract_python_version(symlink) == extract_from(symlink, 1)

\* ------------------------------------------------------------------ filesystem
\* A filesystem is a function from the paths that exist to
\* [kind: "dir" | "file" | "link", to: the target of a link, r: listable].

Parent(p) == SubSeq(p, 1, Len(p) - 1)
Name(p) == p[Len(p)]
IsUnder(p, d) == Len(p) >= Len(d) /\ SubSeq(p, 1, Len(d)) = d

RECURSIVE Walk(_, _, _, _)
\* follow the links of done/rest, component by component
Walk(f, done, rest, fuel) ==
  IF rest = <<>> THEN done
  ELSE LET q == Append(done, Head(rest)) IN
       IF q \in DOMAIN f /\ f[q].kind = "link" /\ fuel > 0
       THEN LET t == f[q].to IN
            IF IsAbs(t) THEN Walk(f, <<"/">>, Tail(t) \o Tail(rest), fuel - 1)
            ELSE Walk(f, done, t \o Tail(rest), fuel - 1)
       ELSE Walk(f, q, Tail(rest), fuel)

\* Path.resolve(): absolute, every symbolic link followed
Resolve(f, wd, p) ==
  LET abs == IF IsAbs(p) THEN p ELSE wd \o p IN Walk(f, <<"/">>, Tail(abs), MaxLinks)

\* Path.exists(), Path.is_dir(): both follow links and answer False for a missing path
Exists(f, wd, p) == Resolve(f, wd, p) \in DOMAIN f
is_dir(f, wd, p) ==
  LET q == Resolve(f, wd, p) IN q \in DOMAIN f /\ f[q].kind = "dir"

\* Path.is_symlink(): the path itself, not followed
is_symlink(f, p) == p \in DOMAIN f /\ f[p].kind = "link"

\* Path.iterdir(): the listing is taken whole when the loop starts
iterdir(f, wd, d) ==
  LET q == Resolve(f, wd, d) IN
  IF q \notin DOMAIN f THEN [raised |-> "FileNotFoundError", value |-> {}]
  ELSE IF f[q].kind # "dir" THEN [raised |-> "NotADirectoryError", value |-> {}]
  ELSE IF ~f[q].r THEN [raised |-> "PermissionError", value |-> {}]
  ELSE [raised |-> None,
        value |-> {Append(d, Name(c)) : c \in {c \in DOMAIN f : Len(c) = Len(q) + 1 /\ Parent(c) = q}}]

\* samefile with the two paths compared as written
samefile_as_written(f, wd, p, other) ==
  IF ~Exists(f, wd, p) \/ ~Exists(f, wd, other)
  THEN [raised |-> "FileNotFoundError", value |-> FALSE]
  ELSE [raised |-> None, value |-> p = other]

\* Path.samefile(): os.stat of both, which raises for a missing file
samefile(f, wd, p, other) ==
  IF ~Exists(f, wd, p) \/ ~Exists(f, wd, other)
  THEN [raised |-> "FileNotFoundError", value |-> FALSE]
  ELSE [raised |-> None, value |-> Resolve(f, wd, p) = Resolve(f, wd, other)]

\* ------------------------------------------------------------------ requirements
\* Python's None where the value is a path or a text
Nil == <<None>>

requirements_name == "requirements.txt"

RECURSIVE search_in_docker_first(_, _, _)
\* search_in looking into the docker child before the directory's own file
search_in_docker_first(f, wd, directory) ==
  IF ~is_dir(f, wd, directory) THEN [raised |-> None, value |-> Nil]
  ELSE LET ls == iterdir(f, wd, directory)
           deeper == search_in_docker_first(f, wd, Append(directory, "docker")) IN
       IF ls.raised # None THEN [raised |-> ls.raised, value |-> Nil]
       ELSE IF (\E p \in ls.value : Name(p) = "docker") /\ deeper.value # Nil
            THEN deeper
            ELSE IF \E p \in ls.value : Name(p) = requirements_name
                 THEN [raised |-> None, value |-> Append(directory, requirements_name)]
                 ELSE [raised |-> None, value |-> Nil]

RECURSIVE search_in(_, _, _)
\* the first of: requirements.txt in the directory, else the search of its docker child
search_in(f, wd, directory) ==
  IF ~is_dir(f, wd, directory) THEN [raised |-> None, value |-> Nil]
  ELSE LET ls == iterdir(f, wd, directory) IN
       IF ls.raised # None THEN [raised |-> ls.raised, value |-> Nil]
       ELSE IF \E p \in ls.value : Name(p) = requirements_name
            THEN [raised |-> None, value |-> Append(directory, requirements_name)]
            ELSE IF \E p \in ls.value : Name(p) = "docker"
                 THEN search_in(f, wd, Append(directory, "docker"))
                 ELSE [raised |-> None, value |-> Nil]

\* Path.with_name
with_name(p, n) == Append(Parent(p), n)

\* the twin project of directory when its parent is named here, searched
twin_search(f, wd, directory, here, there) ==
  IF Name(Parent(directory)) = here
  THEN search_in(f, wd, Append(with_name(Parent(directory), there), Name(directory)))
  ELSE [raised |-> None, value |-> Nil]

\* find_requirements_file without the twin projects
find_requirements_file_own_only(f, wd, directory) == search_in(f, wd, directory)

find_requirements_file(f, wd, directory) ==
  LET own == search_in(f, wd, directory) IN
  IF own.raised # None \/ own.value # Nil THEN own
  ELSE LET adm == twin_search(f, wd, directory, "administrator", "eng-tools") IN
       IF adm.raised # None \/ adm.value # Nil THEN adm
       ELSE twin_search(f, wd, directory, "eng-tools", "administrator")

\* ------------------------------------------------------------------ commands
\* A command is [kind, v, path]: what is run, for which version, on which path.
ProbeCmd(v) == [kind |-> "probe", v |-> v, path |-> Nil]
RmCmd(venv) == [kind |-> "rm", v |-> None, path |-> venv]
VenvCmd(v, venv) == [kind |-> "venv", v |-> v, path |-> venv]
PdmCmd == [kind |-> "pdm", v |-> None, path |-> Nil]
PipCmd(req) == [kind |-> "pip", v |-> None, path |-> req]
MvCmd == [kind |-> "mv", v |-> None, path |-> Nil]

\* not x, for a text or None
Falsy(x) == x = Nil \/ x = <<>>

DryRunPlaceholder == Str(<<"/", "tmp">>)
SuccessSentinel == Chars["OK"]

\* a byte that no UTF-8 text contains
Undecodable == "0xFF"

\* bytes.decode(): the text of the bytes, UnicodeDecodeError when they are not UTF-8
decode(bytes) ==
  IF \E i \in 1..Len(bytes) : bytes[i] = Undecodable
  THEN [raised |-> "UnicodeDecodeError", value |-> <<>>]
  ELSE [raised |-> None, value |-> bytes]

\* lines 168-178 with result what subprocess.run(cmd) gave:
\* [ran: subprocess.run was called, raised, value: what is returned]
run_live(result, verbose, debug) ==
  LET echo == debug \/ result.returncode # 0 \/ verbose > 2
      out == decode(result.stdout)
      err == decode(result.stderr) IN
  IF result.raised # None THEN [ran |-> TRUE, raised |-> result.raised, value |-> Nil]
  ELSE IF echo /\ out.raised # None THEN [ran |-> TRUE, raised |-> out.raised, value |-> Nil]
  ELSE IF echo /\ err.raised # None THEN [ran |-> TRUE, raised |-> err.raised, value |-> Nil]
  ELSE IF result.returncode # 0 THEN [ran |-> TRUE, raised |-> None, value |-> Nil]
  ELSE IF out.raised # None THEN [ran |-> TRUE, raised |-> out.raised, value |-> Nil]
  ELSE [ran |-> TRUE, raised |-> None,
        value |-> IF Strip(out.value) = <<>> THEN SuccessSentinel ELSE Strip(out.value)]

\* run_command with the dry_run test lost: the command is always run
run_command_always(cmd, dry_run, verbose, debug, result) ==
  run_live(result, verbose, debug)

\* run_command: result is what subprocess.run(cmd) gives when it is called
run_command(cmd, dry_run, verbose, debug, result) ==
  IF ~dry_run
  THEN run_live(result, verbose, debug)
  ELSE [ran |-> FALSE, raised |-> None, value |-> DryRunPlaceholder]

\* change_dir: [raised, cwd: the working directory afterwards, did]
change_dir(f, wd, path, dry_run) ==
  IF dry_run THEN [raised |-> None, cwd |-> wd, did |-> "would_chdir"]
  ELSE IF ~is_dir(f, wd, path)
       THEN [raised |-> "FileNotFoundError", cwd |-> wd, did |-> "chdir"]
       ELSE [raised |-> None, cwd |-> Resolve(f, wd, path), did |-> "chdir"]

\* ------------------------------------------------------------------ the machine's files
D == [kind |-> "dir", to |-> Nil, r |-> TRUE]
Locked == [kind |-> "dir", to |-> Nil, r |-> FALSE]
F == [kind |-> "file", to |-> Nil, r |-> TRUE]
L(t) == [kind |-> "link", to |-> t, r |-> TRUE]

Prefixes(p) == {SubSeq(p, 1, k) : k \in 1..(Len(p) - 1)}

\* the filesystem holding these leaves and the directories above them
FsOf(lv) ==
  [q \in (DOMAIN lv \cup UNION {Prefixes(p) : p \in DOMAIN lv}) |->
     IF q \in DOMAIN lv THEN lv[q] ELSE D]

W == <<"/", "w">>
RtxReal == <<"/", "rtx", "installs", "python", "3.10", "bin", "python3">>
MiseExe == <<"/", "mise", "installs", "python", "3.10", "bin", "python">>
MiseReal == <<"/", "mise", "installs", "python", "3.10", "bin", "python3">>
PyenvReal == <<"/", "pyenv", "versions", "3.10", "bin", "python3">>
UsrReal == <<"/", "usr", "bin", "python">>
\* an interpreter whose manager was uninstalled
GoneReal == <<"/", "rtx", "installs", "python", "3.10.7", "bin", "python3">>

Interpreters ==
  RtxReal :> F @@ MiseReal :> F @@ MiseExe :> L(<<"python3">>) @@
  PyenvReal :> F @@ UsrReal :> F

Py(proj) == proj \o <<"venv", "bin", "python">>

\* a project found under an old manager, with a lock file and a legacy configuration
ProjectA ==
  Py(W \o <<"a">>) :> L(RtxReal) @@ (W \o <<"a", "venv", "lib">>) :> D @@
  (W \o <<"a", "pdm.lock">>) :> F @@ (W \o <<"a", ".rtx.toml">>) :> F @@
  (W \o <<"a", "requirements.txt">>) :> F

\* another, with its requirements in a docker directory
ProjectB ==
  Py(W \o <<"b">>) :> L(RtxReal) @@ (W \o <<"b", "docker", "requirements.txt">>) :> F

TwoProjects == ProjectA @@ ProjectB

\* a project already migrated, its legacy configuration still there
Migrated ==
  Py(W \o <<"a">>) :> L(MiseExe) @@ (W \o <<"a", ".rtx.toml">>) :> F

\* an ignored directory and symlinked directories beside it
Ignored ==
  Py(W \o <<"dist">>) :> L(RtxReal) @@ (W \o <<"lnk">>) :> L(W \o <<"dist">>) @@
  (W \o <<"a", "lnk">>) :> L(W) @@ Migrated

\* twin projects
Twins ==
  Py(W \o <<"administrator", "a">>) :> L(RtxReal) @@
  (W \o <<"eng-tools", "a", "docker", "requirements.txt">>) :> F @@
  Py(W \o <<"eng-tools", "b">>) :> L(RtxReal) @@
  (W \o <<"administrator", "b">>) :> D

\* an interpreter whose path names no version
NoVersion == Py(W \o <<"a">>) :> L(PyenvReal)

\* and a directory that cannot be listed, an interpreter named python
Odd == NoVersion @@ (W \o <<"locked">>) :> Locked @@ Py(W \o <<"b">>) :> L(UsrReal)

\* an interpreter that is gone
Gone ==
  Py(W \o <<"a">>) :> L(GoneReal) @@ (W \o <<"a", "requirements.txt">>) :> F

Setups ==
  {[fs |-> FsOf(TwoProjects @@ Interpreters), roots |-> r] :
     r \in {<<W>>, <<W \o <<"b">>, W \o <<"a">>>>, <<W \o <<"a">>, W>>}} \cup
  {[fs |-> FsOf(Ignored @@ Interpreters), roots |-> r] :
     r \in {<<W>>, <<W \o <<"dist">>>>, <<W \o <<"dist", "venv">>, W \o <<"a">>>>}} \cup
  {[fs |-> FsOf(Twins @@ Interpreters), roots |-> r] : r \in {<<W>>}} \cup
  {[fs |-> FsOf(Odd @@ Interpreters), roots |-> r] : r \in {<<W>>}} \cup
  {[fs |-> FsOf(Gone @@ Interpreters), roots |-> r] : r \in {<<W>>}}

default_ignore ==
  {".git", ".idea", ".local", ".pdm-build", ".pex", ".pyenv", ".pytest_cache",
   ".ruff_cache", ".rye", ".tox", "__pycache__", "dist", "pipx"}

\* the default list with what --ignore appends to it
IgnoreChoices == {default_ignore, default_ignore \cup {"lib"}}

Targets == {"mise", "pyenv", "rtx"}

\* ------------------------------------------------------------------ external processes
RmTree(f, d) == [q \in {q \in DOMAIN f : ~IsUnder(q, d)} |-> f[q]]

MkVenv(f, d) ==
  (d :> D @@ Append(d, "bin") :> D @@ Append(d, "lib") :> D @@
   (d \o <<"bin", "python">>) :> L(MiseExe)) @@ f

Rename(f, src, dst) ==
  [q \in ((DOMAIN f \ {src}) \cup {dst}) |-> IF q = dst THEN f[src] ELSE f[q]]

\* a CompletedProcess, with the filesystem the process left behind; raised when
\* subprocess.run raises instead of returning one
Completed(rc, out, err, f) ==
  [raised |-> None, returncode |-> rc, stdout |-> out, stderr |-> err, fs |-> f]
Failed(f) == Completed(1, <<>>, <<>>, f)
Quiet(f) == Completed(0, <<>>, <<>>, f)
\* a failure whose message is not UTF-8
Garbled(f) == Completed(1, <<>>, <<Undecodable>>, f)
\* a success with a warning that is not UTF-8
Noisy(f) == Completed(0, <<>>, <<Undecodable>>, f)
\* the program is not installed
NotInstalled(f) == [Quiet(f) EXCEPT !.raised = "FileNotFoundError"]

\* what subprocess.run(cmd) can give in working directory wd: the exit status,
\* the bytes printed, the filesystem left behind
Outcomes(cmd, f, wd) ==
  {Failed(f), Garbled(f), NotInstalled(f)} \cup
  CASE cmd.kind = "probe" ->
         {Completed(0, Str(MiseExe) \o <<"\n">>, <<>>, f), Quiet(f),
          Completed(0, <<Undecodable, "\n">>, <<>>, f)}
    [] cmd.kind = "rm" -> {Quiet(RmTree(f, cmd.path))}
    [] cmd.kind = "venv" -> {Quiet(MkVenv(f, cmd.path))}
    [] cmd.kind = "mv" ->
         IF Append(wd, ".rtx.toml") \in DOMAIN f
         THEN {Quiet(Rename(f, Append(wd, ".rtx.toml"), Append(wd, ".mise.toml")))}
         ELSE {}
    [] OTHER -> {Quiet(f), Noisy(f)}

\* ------------------------------------------------------------------ state
VARIABLES
  args,                 \* what process_args returns: directories, ignore, dry_run,
                        \* target, verbose, debug
  fs, cwd,              \* the filesystem and the process's working directory
  result,               \* what the last subprocess.run gave
  directories, top, pending, \* find_virtual_environments: the work-list, the directory
                        \* popped, what is left of its listing
  pc, exc,              \* where the run is; the exception that ended it
  virtual_environment, symlink, python_version, target_path, parent_files,
  reinstall_packages, requirements_file, \* fix_virtual_environment's arguments and locals
  yielded, expanded,    \* what the generator has yielded and listed, in order
  log,                  \* what was run, changed and said, in order
  pass                  \* which run of main this is

vars ==
  <<args, fs, cwd, result, directories, top, pending, pc, exc, virtual_environment,
    symlink, python_version, target_path, parent_files, reinstall_packages,
    requirements_file, yielded, expanded, log, pass>>

find_vars == <<directories, top, pending, yielded, expanded>>
\* the locals set before the packages are restored, and all of them
fix_before_install ==
  <<virtual_environment, symlink, python_version, target_path, parent_files,
    reinstall_packages>>
fix_locals == <<fix_before_install, requirements_file>>

NoLocals ==
  /\ virtual_environment = Nil /\ symlink = Nil /\ python_version = None
  /\ target_path = Nil /\ parent_files = {} /\ reinstall_packages = FALSE
  /\ requirements_file = Nil

StartDir == <<"/">>
NoExc == [type |-> None, at |-> None]

\* --verbose counted: not given, given three times
Verbosities == {0, 3}

InitWith(setups, dry_runs, targets, ignores) ==
  /\ \E su \in setups, dr \in dry_runs, tg \in targets, ig \in ignores, db \in BOOLEAN :
       /\ args = [directories |-> su.roots, ignore |-> ig, dry_run |-> dr, target |-> tg,
                  verbose |-> 0, debug |-> db]
       /\ fs = su.fs
       /\ directories = su.roots
       /\ result = Quiet(su.fs)
  /\ cwd = StartDir
  /\ top = Nil /\ pending = {}
  /\ pc = "find" /\ exc = NoExc
  /\ NoLocals
  /\ yielded = <<>> /\ expanded = <<>> /\ log = <<>>
  /\ pass = 1

Init == InitWith(Setups, BOOLEAN, Targets, IgnoreChoices)

\* one line of the log: in which call of fix_virtual_environment (pass, cand, with
\* its arguments env and sym), what was done, on what, whether it succeeded, and
\* the exception it raised instead of returning
Ev(op, what, path, ok, raised) ==
  [pass |-> pass, cand |-> Len(yielded), env |-> virtual_environment, sym |-> symlink,
   op |-> op, what |-> what, path |-> path, ok |-> ok, raised |-> raised]
\* run_command(cmd) gave r: subprocess.run(cmd), or "Would run" printed
Ran(cmd, r) ==
  Ev(IF r.ran THEN "run" ELSE "would_run", cmd.kind,
     IF cmd.kind # "probe" THEN cmd.path
     ELSE IF Falsy(r.value) THEN Nil ELSE PathOf(r.value),
     ~Falsy(r.value), r.raised)
\* change_dir(path) gave cd: os.chdir(path), or "Would change to" printed
Changed(cd, path) == Ev(cd.did, "cd", path, cd.raised = None, cd.raised)
\* a message printed
Said(what) == Ev("said", what, Nil, TRUE, None)

\* an exception leaves the function it is raised in, the generator and main
Raise(e) ==
  /\ pc' = "raised"
  /\ exc' = [type |-> e,
             at |-> IF pc = "find" THEN "find_virtual_environments"
                    ELSE "fix_virtual_environment"]

\* fix_virtual_environment returns and the generator is resumed
Return ==
  /\ pc' = "find" /\ exc' = exc
  /\ virtual_environment' = Nil /\ symlink' = Nil /\ python_version' = None
  /\ target_path' = Nil /\ parent_files' = {} /\ reinstall_packages' = FALSE
  /\ requirements_file' = Nil

\* ------------------------------------------------------------------ find_virtual_environments
\* the loop with the directory listed left on the work-list
Pop_without_removing ==
  /\ pc = "find" /\ pending = {} /\ directories # <<>>
  /\ top' = directories[Len(directories)]
  /\ directories' = directories
  /\ LET ls == iterdir(fs, cwd, top') IN
     IF ls.raised # None
     THEN Raise(ls.raised) /\ UNCHANGED <<pending, expanded>>
     ELSE /\ pending' = ls.value /\ expanded' = Append(expanded, top')
          /\ UNCHANGED <<pc, exc>>
  /\ UNCHANGED <<args, fs, cwd, result, yielded, log, pass>>
  /\ UNCHANGED fix_locals

\* while directories: top = directories.pop(); top.iterdir()
Pop ==
  /\ pc = "find" /\ pending = {} /\ directories # <<>>
  /\ top' = directories[Len(directories)]
  /\ directories' = SubSeq(directories, 1, Len(directories) - 1)
  /\ LET ls == iterdir(fs, cwd, top') IN
     IF ls.raised # None
     THEN Raise(ls.raised) /\ UNCHANGED <<pending, expanded>>
     ELSE /\ pending' = ls.value /\ expanded' = Append(expanded, top')
          /\ UNCHANGED <<pc, exc>>
  /\ UNCHANGED <<args, fs, cwd, result, yielded, log, pass>>
  /\ UNCHANGED fix_locals

\* the loop body with the link yielded as found, not resolved
Visit_unresolved(f, wd, ignore, p) ==
  IF is_dir(f, wd, p)
  THEN [push |-> Name(p) \notin ignore /\ ~is_symlink(f, p), yield |-> Nil]
  ELSE IF Name(p) = "python" /\ is_symlink(f, p) /\ Name(Parent(p)) = "bin"
       THEN [push |-> FALSE, yield |-> <<Parent(Parent(p)), p>>]
       ELSE [push |-> FALSE, yield |-> Nil]

\* the loop body with the ignore test lost
Visit_ignoring_nothing(f, wd, ignore, p) ==
  IF is_dir(f, wd, p)
  THEN [push |-> ~is_symlink(f, p), yield |-> Nil]
  ELSE IF Name(p) = "python" /\ is_symlink(f, p) /\ Name(Parent(p)) = "bin"
       THEN [push |-> FALSE, yield |-> <<Parent(Parent(p)), Resolve(f, wd, p)>>]
       ELSE [push |-> FALSE, yield |-> Nil]

\* the loop body with the symlink test lost: every directory is pushed
Visit_following_links(f, wd, ignore, p) ==
  IF is_dir(f, wd, p)
  THEN [push |-> Name(p) \notin ignore, yield |-> Nil]
  ELSE IF Name(p) = "python" /\ is_symlink(f, p) /\ Name(Parent(p)) = "bin"
       THEN [push |-> FALSE, yield |-> <<Parent(Parent(p)), Resolve(f, wd, p)>>]
       ELSE [push |-> FALSE, yield |-> Nil]

\* the body of the for loop on the child p: what is pushed, what is yielded
Visit(f, wd, ignore, p) ==
  IF is_dir(f, wd, p)
  THEN [push |-> Name(p) \notin ignore /\ ~is_symlink(f, p), yield |-> Nil]
  ELSE IF Name(p) = "python" /\ is_symlink(f, p) /\ Name(Parent(p)) = "bin"
       THEN [push |-> FALSE, yield |-> <<Parent(Parent(p)), Resolve(f, wd, p)>>]
       ELSE [push |-> FALSE, yield |-> Nil]

\* one turn of the for loop; a yield hands the pair to main, which calls
\* fix_virtual_environment with it
Check(p) ==
  /\ pc = "find" /\ p \in pending
  /\ pending' = pending \ {p}
  /\ LET v == Visit(fs, cwd, args.ignore, p) IN
     /\ directories' = IF v.push THEN Append(directories, p) ELSE directories
     /\ IF v.yield # Nil
        THEN /\ virtual_environment' = v.yield[1]
             /\ symlink' = v.yield[2]
             /\ yielded' = Append(yielded, v.yield)
             /\ pc' = "probe"
             /\ UNCHANGED <<python_version, target_path, parent_files, reinstall_packages,
                            requirements_file>>
        ELSE UNCHANGED <<pc, yielded>> /\ UNCHANGED fix_locals
  /\ UNCHANGED <<args, fs, cwd, result, top, exc, expanded, log, pass>>

\* the work-list is empty: the generator ends and main returns
Exhausted ==
  /\ pc = "find" /\ pending = {} /\ directories = <<>>
  /\ pc' = "done"
  /\ UNCHANGED <<args, fs, cwd, result, exc, log, pass>>
  /\ UNCHANGED find_vars /\ UNCHANGED fix_locals

\* ------------------------------------------------------------------ fix_virtual_environment
MiseTree == Join(<<"mise", "installs", "python">>, <<"/">>)
FakeTarget(v) == Str(<<"/", "blah", "mise", "installs", "python", v, "bin", "python">>)

\* lines 209-214: the target path a dry run makes up
dry_target(sym, v) ==
  IF Contains(Str(sym), MiseTree) THEN Str(sym) ELSE FakeTarget(v)

\* lines 190-234: the version, the probe of the target manager, the faked path of a dry run
FixProbe ==
  /\ pc = "probe"
  /\ LET ext == extract_python_version(symlink)
         cmd == ProbeCmd(ext.value) IN
     IF ext.raised # None
     THEN Raise(ext.raised) /\ UNCHANGED <<log, result>> /\ UNCHANGED fix_locals
     ELSE IF args.target = "mise"
     THEN \E res \in Outcomes(cmd, fs, cwd) :
            LET r == run_command(cmd, args.dry_run, args.verbose, args.debug, res)
                tp == IF args.dry_run THEN dry_target(symlink, ext.value) ELSE r.value IN
            /\ result' = IF r.ran THEN res ELSE result
            /\ IF r.raised # None
               THEN Raise(r.raised) /\ log' = Append(log, Ran(cmd, r)) /\ UNCHANGED fix_locals
               ELSE IF Falsy(tp)
               THEN log' = log \o <<Ran(cmd, r), Said("Could not find")>> /\ Return
               ELSE /\ log' = Append(log, Ran(cmd, r))
                    /\ python_version' = ext.value /\ target_path' = tp
                    /\ pc' = "decide"
                    /\ UNCHANGED <<exc, virtual_environment, symlink, parent_files,
                                   reinstall_packages, requirements_file>>
     ELSE log' = Append(log, Said("Could not find")) /\ Return /\ UNCHANGED result
  /\ UNCHANGED <<args, fs, cwd, pass>> /\ UNCHANGED find_vars

\* line 240: the environment already uses the target's interpreter
already_using(f, wd, sym, tpath) ==
  IF Exists(f, wd, tpath) THEN samefile(f, wd, sym, tpath)
  ELSE [raised |-> None, value |-> FALSE]

\* lines 235-243 and 265-270: the parent's file names, then skip, rebuild or no support
FixDecide ==
  /\ pc = "decide"
  /\ LET ls == iterdir(fs, cwd, Parent(virtual_environment))
         same == already_using(fs, cwd, symlink, PathOf(target_path)) IN
     IF ls.raised # None
     THEN Raise(ls.raised) /\ UNCHANGED log /\ UNCHANGED fix_locals
     ELSE IF same.raised # None
     THEN Raise(same.raised) /\ UNCHANGED log /\ UNCHANGED fix_locals
     ELSE IF same.value \/ args.target = "mise"
     THEN /\ parent_files' = {Name(p) : p \in ls.value}
          /\ log' = Append(log, Said(IF same.value THEN "Skipping" ELSE "Attempting"))
          /\ pc' = IF same.value THEN "reinstall" ELSE "remove"
          /\ UNCHANGED <<exc, virtual_environment, symlink, python_version, target_path,
                         reinstall_packages, requirements_file>>
     ELSE log' = Append(log, Said("No support")) /\ Return
  /\ UNCHANGED <<args, fs, cwd, result, pass>> /\ UNCHANGED find_vars

\* a command of the rebuild whose result is not looked at
Rebuild_ignoring_failure(at, cmd, next, installed) ==
  /\ pc = at
  /\ \E res \in Outcomes(cmd, fs, cwd) :
       LET r == run_command(cmd, args.dry_run, args.verbose, args.debug, res) IN
       /\ fs' = IF r.ran THEN res.fs ELSE fs
       /\ result' = IF r.ran THEN res ELSE result
       /\ log' = Append(log, Ran(cmd, r))
       /\ IF r.raised # None
          THEN Raise(r.raised) /\ UNCHANGED fix_locals
          ELSE /\ pc' = next /\ reinstall_packages' = installed
               /\ UNCHANGED <<exc, virtual_environment, symlink, python_version,
                              target_path, parent_files, requirements_file>>
  /\ UNCHANGED <<args, cwd, pass>> /\ UNCHANGED find_vars

\* a command of the rebuild: run it, return on failure, else go on at next
Rebuild(at, cmd, next, installed) ==
  /\ pc = at
  /\ \E res \in Outcomes(cmd, fs, cwd) :
       LET r == run_command(cmd, args.dry_run, args.verbose, args.debug, res) IN
       /\ fs' = IF r.ran THEN res.fs ELSE fs
       /\ result' = IF r.ran THEN res ELSE result
       /\ log' = Append(log, Ran(cmd, r))
       /\ IF r.raised # None
          THEN Raise(r.raised) /\ UNCHANGED fix_locals
          ELSE IF Falsy(r.value)
          THEN Return
          ELSE /\ pc' = next /\ reinstall_packages' = installed
               /\ UNCHANGED <<exc, virtual_environment, symlink, python_version,
                              target_path, parent_files, requirements_file>>
  /\ UNCHANGED <<args, cwd, pass>> /\ UNCHANGED find_vars

\* lines 244-247: rm -rf of the environment
FixRemove == Rebuild("remove", RmCmd(virtual_environment), "create", FALSE)

\* lines 248-264: the target manager builds the environment anew
FixCreate ==
  Rebuild("create", VenvCmd(python_version, virtual_environment), "reinstall", TRUE)

\* after saying why: change_dir(parent), then run_command(cmd); the function
\* returns when the command fails or nothing follows it (next is "find");
\* req is the requirements file found by then
InParent(why, cmd, next, req) ==
  LET parent == Parent(virtual_environment)
      cd == change_dir(fs, cwd, parent, args.dry_run) IN
  IF cd.raised # None
  THEN /\ Raise(cd.raised) /\ log' = log \o <<Said(why), Changed(cd, parent)>>
       /\ requirements_file' = req
       /\ UNCHANGED <<fs, cwd, result>> /\ UNCHANGED fix_before_install
  ELSE \E res \in Outcomes(cmd, fs, cd.cwd) :
         LET r == run_command(cmd, args.dry_run, args.verbose, args.debug, res) IN
         /\ cwd' = cd.cwd /\ fs' = IF r.ran THEN res.fs ELSE fs
         /\ result' = IF r.ran THEN res ELSE result
         /\ log' = log \o <<Said(why), Changed(cd, parent), Ran(cmd, r)>>
         /\ IF r.raised # None
            THEN Raise(r.raised) /\ requirements_file' = req /\ UNCHANGED fix_before_install
            ELSE IF Falsy(r.value) \/ next = "find"
            THEN Return
            ELSE /\ pc' = next /\ requirements_file' = req
                 /\ UNCHANGED exc /\ UNCHANGED fix_before_install

\* the restore with the requirements file looked for before the lock file
FixReinstall_pip_first ==
  /\ pc = "reinstall"
  /\ LET req == find_requirements_file(fs, cwd, Parent(virtual_environment)) IN
     IF ~reinstall_packages
     THEN pc' = "rename" /\ UNCHANGED <<fs, cwd, result, exc, log>> /\ UNCHANGED fix_locals
     ELSE IF req.raised # None
     THEN Raise(req.raised) /\ UNCHANGED <<fs, cwd, result, log>> /\ UNCHANGED fix_locals
     ELSE IF req.value # Nil
     THEN InParent("Found requirements", PipCmd(req.value), "rename", req.value)
     ELSE IF "pdm.lock" \in parent_files
     THEN InParent("Found pdm.lock", PdmCmd, "rename", requirements_file)
     ELSE /\ log' = Append(log, Said("I don't know"))
          /\ pc' = "rename" /\ UNCHANGED <<fs, cwd, result, exc>> /\ UNCHANGED fix_locals
  /\ UNCHANGED <<args, pass>> /\ UNCHANGED find_vars

\* lines 272-291: restore the packages of a rebuilt environment
FixReinstall ==
  /\ pc = "reinstall"
  /\ LET req == find_requirements_file(fs, cwd, Parent(virtual_environment)) IN
     IF ~reinstall_packages
     THEN pc' = "rename" /\ UNCHANGED <<fs, cwd, result, exc, log>> /\ UNCHANGED fix_locals
     ELSE IF "pdm.lock" \in parent_files
     THEN InParent("Found pdm.lock", PdmCmd, "rename", requirements_file)
     ELSE IF req.raised # None
     THEN Raise(req.raised) /\ UNCHANGED <<fs, cwd, result, log>> /\ UNCHANGED fix_locals
     ELSE IF req.value # Nil
     THEN InParent("Found requirements", PipCmd(req.value), "rename", req.value)
     ELSE /\ log' = Append(log, Said("I don't know"))
          /\ pc' = "rename" /\ UNCHANGED <<fs, cwd, result, exc>> /\ UNCHANGED fix_locals
  /\ UNCHANGED <<args, pass>> /\ UNCHANGED find_vars

\* the rename done only for an environment that was rebuilt
FixRename_after_rebuild ==
  /\ pc = "rename"
  /\ IF ".rtx.toml" \in parent_files /\ args.target = "mise" /\ reinstall_packages
     THEN InParent("Found .rtx.toml", MvCmd, "find", requirements_file)
     ELSE Return /\ UNCHANGED <<fs, cwd, result, log>>
  /\ UNCHANGED <<args, pass>> /\ UNCHANGED find_vars

\* lines 293-299: the legacy configuration file is renamed; the function returns
FixRename ==
  /\ pc = "rename"
  /\ IF ".rtx.toml" \in parent_files /\ args.target = "mise"
     THEN InParent("Found .rtx.toml", MvCmd, "find", requirements_file)
     ELSE Return /\ UNCHANGED <<fs, cwd, result, log>>
  /\ UNCHANGED <<args, pass>> /\ UNCHANGED find_vars

\* ------------------------------------------------------------------ main
Next ==
  \/ Pop
  \/ \E p \in pending : Check(p)
  \/ Exhausted
  \/ FixProbe
  \/ FixDecide
  \/ FixRemove
  \/ FixCreate
  \/ FixReinstall
  \/ FixRename

\* one run of main, over every setup
Spec == Init /\ [][Next]_vars

\* a dry run: the tree stays as found; main runs on until it returns or an
\* exception ends it
InitDry == InitWith(Setups, {TRUE}, Targets, IgnoreChoices)

SpecDry == InitDry /\ [][Next]_vars /\ WF_vars(Next)

\* ------------------------------------------------------------------ main, run again
\* Passes of main over the same tree.
MaxPasses == 2

SetupsTwice ==
  {[fs |-> FsOf(ProjectA @@ Interpreters), roots |-> <<W>>],
   [fs |-> FsOf(Migrated @@ Interpreters), roots |-> <<W>>],
   [fs |-> FsOf(NoVersion @@ Interpreters), roots |-> <<W>>]}

InitTwice == InitWith(SetupsTwice, BOOLEAN, {"mise"}, {default_ignore})

\* main has returned; the tool is started again on the same directories, live
Again ==
  /\ pc = "done" /\ pass < MaxPasses
  /\ pass' = pass + 1
  /\ args' = [args EXCEPT !.dry_run = FALSE]
  /\ directories' = args.directories
  /\ cwd' = StartDir
  /\ top' = Nil /\ pending' = {} /\ yielded' = <<>> /\ expanded' = <<>>
  /\ pc' = "find"
  /\ UNCHANGED <<fs, result, exc, log>> /\ UNCHANGED fix_locals

NextTwice == Next \/ Again

SpecTwice == InitTwice /\ [][NextTwice]_vars

\* ------------------------------------------------------------------ extract_python_version alone
PartNames == {"/", "bin", "python", "3.10", "3.10.7", "3."}

RECURSIVE SeqsUpTo(_, _)
SeqsUpTo(S, n) ==
  IF n = 0 THEN {<<>>}
  ELSE LET shorter == SeqsUpTo(S, n - 1) IN
       shorter \cup {Append(q, x) : q \in shorter, x \in S}

InitExtract ==
  /\ symlink \in SeqsUpTo(PartNames, MaxParts)
  /\ pc = "extract" /\ exc = NoExc /\ python_version = None
  /\ args = [directories |-> <<>>, ignore |-> {}, dry_run |-> TRUE, target |-> "mise",
             verbose |-> 0, debug |-> FALSE]
  /\ fs = FsOf(Interpreters) /\ cwd = StartDir /\ result = Quiet(fs)
  /\ directories = <<>> /\ top = Nil /\ pending = {}
  /\ virtual_environment = Nil /\ target_path = Nil /\ parent_files = {}
  /\ reinstall_packages = FALSE /\ requirements_file = Nil
  /\ yielded = <<>> /\ expanded = <<>> /\ log = <<>> /\ pass = 1

\* python_version = extract_python_version(symlink)
Extract ==
  /\ pc = "extract"
  /\ LET ext == extract_python_version(symlink) IN
     /\ python_version' = ext.value
     /\ exc' = [type |-> ext.raised,
                at |-> IF ext.raised # None THEN "extract_python_version" ELSE None]
     /\ pc' = IF ext.raised # None THEN "raised" ELSE "returned"
  /\ UNCHANGED <<args, fs, cwd, result, virtual_environment, symlink, target_path,
                 parent_files, reinstall_packages, requirements_file, log, pass>>
  /\ UNCHANGED find_vars

NextExtract == Extract

SpecExtract == InitExtract /\ [][NextExtract]_vars

\* ------------------------------------------------------------------ run_command alone
\* Longest output of a process handed to run_command on its own.
MaxOut == 2

OutBytes == {"/", "a", " ", "\n", Undecodable}
\* exit statuses: success, failures, killed by a signal
ExitStatuses == {0, 1, 2, -9}

\* result is what subprocess.run is going to give
InitRun ==
  /\ \E dr \in BOOLEAN, vb \in Verbosities, db \in BOOLEAN :
       args = [directories |-> <<>>, ignore |-> {}, dry_run |-> dr, target |-> "mise",
               verbose |-> vb, debug |-> db]
  /\ fs = FsOf(Interpreters) /\ cwd = StartDir
  /\ \/ \E rc \in ExitStatuses, out \in SeqsUpTo(OutBytes, MaxOut),
            err \in {<<>>, <<Undecodable>>} : result = Completed(rc, out, err, fs)
     \/ result = NotInstalled(fs)
  /\ pc = "run" /\ exc = NoExc
  /\ directories = <<>> /\ top = Nil /\ pending = {}
  /\ NoLocals
  /\ yielded = <<>> /\ expanded = <<>> /\ log = <<>> /\ pass = 1

\* target_path = run_command(cmd, dry_run, verbose, debug)
RunCommand ==
  /\ pc = "run"
  /\ LET r == run_command(PdmCmd, args.dry_run, args.verbose, args.debug, result) IN
     /\ target_path' = r.value
     /\ log' = Append(log, Ran(PdmCmd, r))
     /\ exc' = [type |-> r.raised, at |-> IF r.raised # None THEN "run_command" ELSE None]
     /\ pc' = IF r.raised # None THEN "raised" ELSE "returned"
  /\ UNCHANGED <<args, fs, cwd, result, virtual_environment, symlink, python_version,
                 parent_files, reinstall_packages, requirements_file, pass>>
  /\ UNCHANGED find_vars

NextRun == RunCommand

SpecRun == InitRun /\ [][NextRun]_vars

\* ------------------------------------------------------------------ find_requirements_file alone
\* Deepest nesting of docker directories in the trees searched.
MaxDocker == 2

Adm == W \o <<"administrator", "a">>
Eng == W \o <<"eng-tools", "a">>

RECURSIVE Docker(_, _)
\* directory/docker/.../docker, k levels down
Docker(directory, k) == IF k = 0 THEN directory ELSE Append(Docker(directory, k - 1), "docker")

\* what a project tree may hold: the two project directories, requirements files
\* at each level of the administrator project and at the first levels of its twin,
\* something named docker that is a plain file
ManifestEntries ==
  {[path |-> Adm, is |-> D], [path |-> Eng, is |-> D],
   [path |-> Append(Adm, "docker"), is |-> F],
   [path |-> Append(Eng, "docker"), is |-> D]} \cup
  {[path |-> Append(Docker(Adm, k), requirements_name), is |-> F] : k \in 0..MaxDocker} \cup
  {[path |-> Append(Docker(Eng, k), requirements_name), is |-> F] : k \in 0..1}

\* no entry lies beneath a plain file
Consistent(es) ==
  \A x, y \in es : (x.is = F /\ x # y) => ~IsUnder(y.path, x.path)

ManifestTrees ==
  {FsOf([q \in {e.path : e \in es} |-> (CHOOSE e \in es : e.path = q).is] @@ (W :> D))
     : es \in {es \in SUBSET ManifestEntries : Consistent(es)}}

\* the directories find_requirements_file is called with
ProjectDirs == {Adm, Eng, Append(Adm, "docker"), Parent(Adm)}

InitRequirements ==
  /\ fs \in ManifestTrees
  /\ \E d \in ProjectDirs : virtual_environment = Append(d, "venv")
  /\ args = [directories |-> <<>>, ignore |-> {}, dry_run |-> FALSE, target |-> "mise",
             verbose |-> 0, debug |-> FALSE]
  /\ cwd = StartDir /\ result = Quiet(fs)
  /\ pc = "requirements" /\ exc = NoExc
  /\ directories = <<>> /\ top = Nil /\ pending = {}
  /\ symlink = Nil /\ python_version = None /\ target_path = Nil /\ parent_files = {}
  /\ reinstall_packages = TRUE /\ requirements_file = Nil
  /\ yielded = <<>> /\ expanded = <<>> /\ log = <<>> /\ pass = 1

\* requirements_file := find_requirements_file(virtual_environment.parent)
FindRequirements ==
  /\ pc = "requirements"
  /\ LET req == find_requirements_file(fs, cwd, Parent(virtual_environment)) IN
     /\ requirements_file' = req.value
     /\ exc' = [type |-> req.raised,
                at |-> IF req.raised # None THEN "find_requirements_file" ELSE None]
     /\ pc' = IF req.raised # None THEN "raised" ELSE "returned"
  /\ UNCHANGED <<args, fs, cwd, result, log, pass>>
  /\ UNCHANGED fix_before_install /\ UNCHANGED find_vars

NextRequirements == FindRequirements

SpecRequirements == InitRequirements /\ [][NextRequirements]_vars

\* ------------------------------------------------------------------ reading the log
Idx == 1..Len(log)
\* two lines of the same call of fix_virtual_environment
SameCall(i, j) == log[i].pass = log[j].pass /\ log[i].cand = log[j].cand
Mutating == {"rm", "venv", "pdm", "pip", "mv"}
\* a process was executed, the working directory was changed
Executed(i) == log[i].op = "run"
ChangedDir(i) == log[i].op = "chdir"

\* ------------------------------------------------------------------ claims
\* C1 (as claimed): in a live run with target mise, once a command of candidate A
\* has failed, no exception leaves find_virtual_environments on a directory of A's
\* environment: the failure stays with A and discovery goes on to the candidates
\* after it.
C1_FailureIsolated ==
  \A i \in Idx :
    (Executed(i) /\ ~log[i].ok /\ args.target = "mise")
      => ~(pc = "raised" /\ exc.at = "find_virtual_environments"
           /\ IsUnder(top, log[i].env))

\* C2: with dry_run, no process is executed, the working directory is never
\* changed, and the filesystem is the one the run started on.
C2_DryRunRunsNothing ==
  args.dry_run =>
    /\ \A i \in Idx : ~Executed(i) /\ ~ChangedDir(i)
    /\ cwd = StartDir
    /\ \E su \in Setups : su.fs = fs /\ su.roots = args.directories

\* C2 witness: a dry run that ended after reporting a removal, a rename and a
\* change of directory
C2_Witness ==
  /\ args.dry_run /\ pc = "done"
  /\ \E i \in Idx : log[i].op = "would_run" /\ log[i].what = "rm"
  /\ \E i \in Idx : log[i].op = "would_run" /\ log[i].what = "mv"
  /\ \E i \in Idx : log[i].op = "would_chdir"

\* the call of fix_virtual_environment in progress
Current(i) == log[i].pass = pass /\ log[i].cand = Len(yielded) /\ virtual_environment # Nil
Skipped(i) == log[i].op = "said" /\ log[i].what = "Skipping"

\* C3 (as claimed): after "Skipping", no process is executed and the working
\* directory is not changed for that candidate.
C3_SkipStops ==
  \A i, j \in Idx :
    (Skipped(i) /\ i < j /\ SameCall(i, j)) => ~Executed(j) /\ ~ChangedDir(j)

\* the names in the parent directory of the environment being fixed
ParentNames ==
  {Name(q) : q \in iterdir(fs, cwd, Parent(virtual_environment)).value}

\* after "Skipping" the only things done are those of the rename
C3_SkipLog ==
  \A i, j \in Idx :
    (Skipped(i) /\ i < j /\ SameCall(i, j)) =>
      log[j].what \in {"Found .rtx.toml", "cd", "mv"}

\* a skipped candidate at the rename: the directory is changed and mv is run
\* (or reported) exactly when .rtx.toml is in the parent directory
C3_RenameStep ==
  (pc = "rename" /\ \E i \in Idx : Skipped(i) /\ Current(i)) =>
    ((".rtx.toml" \in ParentNames /\ args.target = "mise")
       <=> /\ Len(log') = Len(log) + 3
           /\ log'[Len(log) + 2].what = "cd"
           /\ log'[Len(log) + 3].what = "mv")

\* C3 (amended): a candidate whose interpreter is the target's is marked Skip; no
\* remove, create or install command follows, and the rename, with its change of
\* directory, follows exactly when .rtx.toml is in the parent directory.
C3_SkipOnlyRenames == [](C3_SkipLog) /\ [][C3_RenameStep]_vars

\* C3 witness: a live run skipped a candidate and then ran mv for it
C3_Witness ==
  \E i, j \in Idx :
    /\ Skipped(i) /\ i < j /\ SameCall(i, j)
    /\ Executed(j) /\ log[j].what = "mv" /\ log[j].ok

\* every command that candidate env ran in pass k succeeded, the removal and the
\* creation of the environment among them
MigratedIn(env, k) ==
  /\ \E i \in Idx : log[i].pass = k /\ log[i].env = env /\ Executed(i) /\ log[i].what = "rm"
  /\ \E i \in Idx : log[i].pass = k /\ log[i].env = env /\ Executed(i) /\ log[i].what = "venv"
  /\ \A i \in Idx : (log[i].pass = k /\ log[i].env = env /\ Executed(i)) => log[i].ok

\* line i is a probe, run in a later pass, that reported the very file the
\* environment's bin/python resolves to
ProbeAgrees(i) ==
  /\ Executed(i) /\ log[i].what = "probe" /\ log[i].ok /\ log[i].pass > 1
  /\ log[i].sym \in DOMAIN fs
  /\ Resolve(fs, StartDir, log[i].path) = log[i].sym

\* C4: a candidate migrated by a live pass, every command succeeding, whose
\* rebuilt bin/python resolves to the file the probe reports, is skipped by the
\* next pass, which runs no remove, create, install or rename command for it.
C4_SecondPassSkips ==
  \A i \in Idx :
    (ProbeAgrees(i) /\ MigratedIn(log[i].env, log[i].pass - 1)) =>
      /\ \A j \in Idx : (i < j /\ SameCall(i, j)) => log[j].what \notin Mutating \cup {"cd"}
      /\ (Current(i) /\ pc \in {"decide", "raised"}) \/ \E j \in Idx : SameCall(i, j) /\ Skipped(j)

\* C4 witness: the second pass skipped a candidate the first pass had rebuilt,
\* reinstalled and renamed
C4_Witness ==
  \E i, j \in Idx :
    /\ ProbeAgrees(i) /\ MigratedIn(log[i].env, 1) /\ SameCall(i, j) /\ Skipped(j)
    /\ \E k \in Idx : log[k].pass = 1 /\ Executed(k) /\ log[k].what = "mv"
    /\ pc = "done"

\* C5 (as claimed): for a candidate whose interpreter path yields no version, no
\* command is run or reported.
C5_AbsentVersionAborts ==
  \A i \in Idx :
    (log[i].env # Nil /\ extract_python_version(log[i].sym) = [raised |-> None, value |-> None])
      => log[i].op \notin {"run", "would_run"}

\* the first place where "python" is followed by a version, 0 if there is none
FirstAdjacency(parts) ==
  LET at == {i \in 1..(Len(parts) - 1) : parts[i] = "python" /\ is_a_version(parts[i + 1])} IN
  IF at = {} THEN 0 ELSE CHOOSE i \in at : \A j \in at : i <= j

\* C6 (as claimed): extract_python_version never raises; it returns the component
\* after the first "python" that a version follows, and None when there is none.
C6_ExtractTotal ==
  pc \in {"returned", "raised"} =>
    /\ exc.type = None
    /\ python_version =
         IF FirstAdjacency(symlink) = 0 THEN None ELSE symlink[FirstAdjacency(symlink) + 1]

\* C7 (as claimed): the interpreter of every pair yielded has a parent named bin
\* and the pair's root as its grandparent.
C7_CandidateInvariant ==
  \A k \in 1..Len(yielded) :
    LET root == yielded[k][1]
        interpreter == yielded[k][2] IN
    Name(Parent(interpreter)) = "bin" /\ Parent(Parent(interpreter)) = root

\* C7 (amended): when a pair (root, interpreter) is yielded, root/bin/python is a
\* symbolic link and interpreter is the file that link resolves to; the pair is
\* what fix_virtual_environment is called with.
C7_CandidateIsResolvedLink ==
  pc = "probe" =>
    LET root == yielded[Len(yielded)][1]
        interpreter == yielded[Len(yielded)][2] IN
    /\ is_symlink(fs, root \o <<"bin", "python">>)
    /\ interpreter = Resolve(fs, cwd, root \o <<"bin", "python">>)
    /\ ~is_symlink(fs, interpreter)
    /\ virtual_environment = root /\ symlink = interpreter

\* C7 witness: a pair was just yielded whose interpreter lies in a manager's tree
C7_Witness ==
  /\ pc = "probe"
  /\ yielded[Len(yielded)][2] = RtxReal
  /\ Parent(Parent(yielded[Len(yielded)][2])) # yielded[Len(yielded)][1]

\* C8 (as claimed): no error of listing a work-list directory leaves
\* find_virtual_environments.
C8_TraversalSurvives ==
  ~(pc = "raised" /\ exc.at = "find_virtual_environments")

\* what was said for candidate env in pass k, in order
Branches(env, k) ==
  LET Told(e) == e.pass = k /\ e.env = env /\ e.op = "said" IN
  [i \in 1..Len(SelectSeq(log, Told)) |-> SelectSeq(log, Told)[i].what]

\* the same, up to the first command that changes something
BranchesBeforeMutation(env, k) ==
  LET Mine(e) == e.pass = k /\ e.env = env
      mine == SelectSeq(log, Mine)
      muts == {i \in 1..Len(mine) : mine[i].op = "run" /\ mine[i].what \in Mutating}
      upto == IF muts = {} THEN Len(mine) ELSE (CHOOSE i \in muts : \A j \in muts : i <= j) - 1
      Told(e) == e.op = "said"
      told == SelectSeq(SubSeq(mine, 1, upto), Told) IN
  [i \in 1..Len(told) |-> told[i].what]

FirstPassWasDry == \E i \in Idx : log[i].pass = 1 /\ log[i].op = "would_run"

\* C9 (as claimed): a dry run with target mise completes, and a live run on the
\* same tree takes, for every candidate and up to its first mutating command,
\* the branches the dry run took.
C9_DryRunSameBranches ==
  /\ (pass = 1 /\ args.dry_run) => pc # "raised"
  /\ (pass = 2 /\ pc = "done" /\ FirstPassWasDry) =>
       \A env \in {log[i].env : i \in Idx} :
         LET live == BranchesBeforeMutation(env, 2)
             dry == Branches(env, 1) IN
         Len(live) <= Len(dry) /\ live = SubSeq(dry, 1, Len(live))

\* the directories on the way to a candidate's bin/python, the root first
Above(root) == Prefixes(root \o <<"bin", "python">>)

\* C10 (as claimed): no directory named in the ignore set is listed, and no
\* candidate is yielded from such a directory or anything beneath it.
C10_IgnoredNeverExpanded ==
  /\ \A k \in 1..Len(expanded) : Name(expanded[k]) \notin args.ignore
  /\ \A k \in 1..Len(yielded) :
       \A d \in Above(yielded[k][1]) : Name(d) \notin args.ignore

RootSet == {args.directories[k] : k \in 1..Len(args.directories)}

\* C10 (amended): a directory named in the ignore set is listed only if it is one
\* of the roots given, and a candidate is yielded from such a directory or from
\* beneath it only if a root is that directory or lies beneath it.
C10_IgnoredUnlessRoot ==
  /\ \A k \in 1..Len(expanded) :
       Name(expanded[k]) \in args.ignore => expanded[k] \in RootSet
  /\ \A k \in 1..Len(yielded) :
       \A d \in Above(yielded[k][1]) :
         Name(d) \in args.ignore => \E r \in RootSet : IsUnder(r, d)

\* C10 witness: the traversal ended having listed the parent of an ignored
\* directory that holds an environment, and yielded nothing from it
C10_Witness ==
  /\ pc = "done"
  /\ \E d \in DOMAIN fs :
       /\ Name(d) \in args.ignore /\ is_dir(fs, cwd, d)
       /\ \E k \in 1..Len(expanded) : expanded[k] = Parent(d)
       /\ is_symlink(fs, d \o <<"venv", "bin", "python">>)
       /\ \A k \in 1..Len(yielded) : ~IsUnder(yielded[k][1], d)

\* d, and every directory above it, is a directory as such and no symbolic link
Unlinked(d) == \A k \in 1..Len(d) : ~is_symlink(fs, SubSeq(d, 1, k))

\* C11: a child that is a symbolic link to a directory is never pushed on the
\* work-list and never listed, and no candidate is yielded whose bin/python has a
\* symbolic link among the directories above it.
C11_SymlinkedNeverFollowed ==
  /\ \A k \in 1..Len(directories) : Unlinked(directories[k])
  /\ \A k \in 1..Len(expanded) : Unlinked(expanded[k])
  /\ \A k \in 1..Len(yielded) : \A d \in Above(yielded[k][1]) : ~is_symlink(fs, d)

\* C11 witness: the traversal ended having listed the parent of a symbolic link,
\* not ignored by name, to a directory that holds an environment it would
\* otherwise have found
C11_Witness ==
  /\ pc = "done"
  /\ \E d \in DOMAIN fs :
       /\ is_symlink(fs, d) /\ is_dir(fs, cwd, d) /\ Name(d) \notin args.ignore
       /\ \E k \in 1..Len(expanded) : expanded[k] = Parent(d)
       /\ \E c \in DOMAIN fs :
            /\ Name(c) = "python" /\ is_symlink(fs, c) /\ Name(Parent(c)) = "bin"
            /\ IsUnder(c, Resolve(fs, cwd, d))
            /\ \A k \in (Len(Resolve(fs, cwd, d)) + 1)..(Len(c) - 1) : c[k] \notin args.ignore

\* with target pyenv or rtx nothing is run or reported as run, and the working
\* directory is neither changed nor reported as changed
C12_NothingIssued ==
  args.target \in {"pyenv", "rtx"} =>
    /\ \A i \in Idx : log[i].op = "said"
    /\ cwd = StartDir
    /\ \E su \in Setups : su.fs = fs

\* with target pyenv or rtx every call reports that no path was found, once, and
\* returns
C12_ReportsAndReturns ==
  args.target \in {"pyenv", "rtx"} =>
    /\ ~(pc = "raised" /\ exc.at = "fix_virtual_environment")
    /\ pc = "done" =>
         \A k \in 1..Len(yielded) :
           Cardinality({i \in Idx : log[i].cand = k /\ log[i].what = "Could not find"}) = 1

\* C12 (as claimed): for target pyenv or rtx, in a live and in a dry run, every
\* candidate is reported and fix_virtual_environment returns, having issued no
\* command and no change of directory.
C12_UnsupportedIsNoOp == C12_NothingIssued /\ C12_ReportsAndReturns

\* t is s without the whitespace at its two ends
Trimmed(t, s) ==
  /\ t = <<>> \/ (t[1] \notin Whitespace /\ t[Len(t)] \notin Whitespace)
  /\ \E i \in 1..(Len(s) + 1) :
       /\ i + Len(t) - 1 <= Len(s)
       /\ t = SubSeq(s, i, i + Len(t) - 1)
       /\ \A k \in 1..Len(s) : (k < i \/ k > i + Len(t) - 1) => s[k] \in Whitespace

\* C13 (as claimed): in a live run run_command returns None exactly when the
\* process it executed exits with a status other than zero; on status zero it
\* returns the trimmed output, or "OK" when that is empty, never None or ""; in a
\* dry run it executes nothing and returns a placeholder that is not None.
C13_RunCommandResult ==
  (pc \in {"returned", "raised"} /\ log # <<>>) =>
    IF args.dry_run
    THEN pc = "returned" /\ ~Falsy(target_path) /\ ~Executed(1)
    ELSE result.raised = None =>
           /\ pc = "returned"
           /\ target_path = Nil <=> result.returncode # 0
           /\ result.returncode = 0 =>
                /\ ~Falsy(target_path)
                /\ \/ Trimmed(target_path, result.stdout)
                   \/ target_path = Chars["OK"] /\ Trimmed(<<>>, result.stdout)

\* the levels of directory/docker/.../docker that hold a requirements.txt
Holding(directory) ==
  {k \in 0..(MaxDocker + 1) : Append(Docker(directory, k), requirements_name) \in DOMAIN fs}

\* the requirements.txt nearest to directory down its docker directories, Nil if
\* there is none
Nearest(directory) ==
  IF Holding(directory) = {} THEN Nil
  ELSE Append(Docker(directory, CHOOSE k \in Holding(directory) :
                                  \A j \in Holding(directory) : k <= j),
              requirements_name)

\* the directory find_requirements_file was called with
Project == Parent(virtual_environment)

\* C14: find_requirements_file returns the requirements.txt directly in the
\* directory whenever there is one, docker/requirements.txt or not; what it
\* returns from the docker directory, found there by the same rule, it returns
\* only when the directory has no requirements.txt of its own.
C14_DirectFileWins ==
  pc = "returned" =>
    /\ Append(Project, requirements_name) \in DOMAIN fs
         => requirements_file = Append(Project, requirements_name)
    /\ IsUnder(requirements_file, Append(Project, "docker"))
         => /\ Append(Project, requirements_name) \notin DOMAIN fs
            /\ requirements_file = Nearest(Append(Project, "docker"))
    /\ Nearest(Project) # Nil => requirements_file = Nearest(Project)

\* C14 witness: the directory holds requirements.txt and docker/requirements.txt,
\* and its own was returned
C14_Witness ==
  /\ pc = "returned"
  /\ Append(Project, requirements_name) \in DOMAIN fs
  /\ Append(Docker(Project, 1), requirements_name) \in DOMAIN fs
  /\ requirements_file = Append(Project, requirements_name)

\* the project of the same name under the sibling directory named there
Twin(directory, there) ==
  Append(Append(Parent(Parent(directory)), there), Name(directory))

\* C15: when the search of the project directory itself finds nothing and its
\* parent is named administrator, what is returned is the result of searching
\* the project of the same name under the sibling eng-tools, and the other way
\* round from eng-tools to administrator; the twin counts only when the
\* directory's own search found nothing, and None is returned when no search
\* finds a file.
C15_TwinFallback ==
  pc = "returned" =>
    /\ Nearest(Project) # Nil => requirements_file = Nearest(Project)
    /\ (Nearest(Project) = Nil /\ Name(Parent(Project)) = "administrator")
         => requirements_file = Nearest(Twin(Project, "eng-tools"))
    /\ (Nearest(Project) = Nil /\ Name(Parent(Project)) = "eng-tools")
         => requirements_file = Nearest(Twin(Project, "administrator"))
    /\ (Nearest(Project) = Nil /\ Name(Parent(Project)) \notin {"administrator", "eng-tools"})
         => requirements_file = Nil

\* C15 witness: a project under administrator with no file of its own was given
\* the file in the docker directory of its twin under eng-tools
C15_Witness ==
  /\ pc = "returned"
  /\ Project = Adm /\ is_dir(fs, cwd, Adm) /\ Nearest(Adm) = Nil
  /\ requirements_file = Eng \o <<"docker", requirements_name>>

\* a command was issued: run, or reported by a dry run
Issued(i) == log[i].op \in {"run", "would_run"}
\* the commands that may follow a command of a candidate that is not skipped
Follows(what) ==
  CASE what = "probe" -> {"rm"}
    [] what = "rm" -> {"venv"}
    [] what = "venv" -> {"pdm", "pip", "mv"}
    [] what \in {"pdm", "pip"} -> {"mv"}
    [] OTHER -> {}
\* line j is the first command issued after line i in the same call
NextIssued(i, j) ==
  /\ i < j /\ SameCall(i, j) /\ Issued(i) /\ Issued(j)
  /\ \A k \in Idx : (i < k /\ k < j) => ~Issued(k)
\* run_command returned None on line i
Absent(i) == Issued(i) /\ ~log[i].ok /\ log[i].raised = None
\* the call of line i said it skips its candidate
SkippedCall(i) == \E k \in Idx : SameCall(i, k) /\ Skipped(k)

\* C16: with target mise the commands of a candidate that is not skipped come in
\* the order probe, remove, create, at most one of pdm and pip, rename, each one
\* only after every earlier one returned a value; once a command returns None
\* nothing more is run or changed for the candidate and fix_virtual_environment
\* has returned, no exception raised.
C16_CommandOrder ==
  args.target = "mise" =>
    \A i \in Idx : (Issued(i) /\ ~SkippedCall(i)) =>
      /\ (\A k \in Idx : (k < i /\ SameCall(k, i)) => ~Issued(k)) => log[i].what = "probe"
      /\ \A j \in Idx : NextIssued(i, j) => log[j].what \in Follows(log[i].what)
      /\ \A j \in Idx : (i < j /\ SameCall(i, j) /\ Issued(j)) => log[i].ok
      /\ Absent(i) =>
           /\ \A j \in Idx : (i < j /\ SameCall(i, j)) => log[j].op = "said"
           /\ ~Current(i)
           /\ ~(pc = "raised" /\ exc.at = "fix_virtual_environment"
                 /\ log[i].pass = pass /\ log[i].cand = Len(yielded))

\* C16 witness: a live run with target mise ran probe, remove, create and pip for
\* a candidate, pip returned None, and the run ended without the rename
C16_Witness ==
  /\ args.target = "mise" /\ ~args.dry_run /\ pc = "done"
  /\ \E i \in Idx :
       /\ Absent(i) /\ log[i].what = "pip"
       /\ \E a, b, c \in Idx :
            /\ a < b /\ b < c /\ c < i /\ SameCall(a, i) /\ SameCall(b, i) /\ SameCall(c, i)
            /\ log[a].what = "probe" /\ log[b].what = "rm" /\ log[c].what = "venv"
       /\ \A j \in Idx : SameCall(i, j) => log[j].what # "mv"

\* an installer was issued on line i
Installer(i) == Issued(i) /\ log[i].what \in {"pdm", "pip"}

\* at most one installer per candidate, and only after its environment was created
C17_OneInstaller ==
  \A i \in Idx : Installer(i) =>
    /\ \A j \in Idx : (Installer(j) /\ SameCall(i, j)) => i = j
    /\ \E k \in Idx : k < i /\ SameCall(k, i) /\ Issued(k) /\ log[k].what = "venv" /\ log[k].ok

\* the names of the parent directory are taken before the environment is removed
\* and kept as taken
C17_SnapshotStep ==
  /\ pc = "remove" => parent_files = ParentNames
  /\ (pc \in {"remove", "create", "reinstall"} /\ pc' \in {"create", "reinstall", "rename"})
       => parent_files' = parent_files

\* the lines a step adds to the log
Added == {k \in 1..Len(log') : k > Len(log)}

\* a rebuilt candidate at the restore: pdm exactly when pdm.lock is in the names
\* taken, else pip on the file exactly when find_requirements_file returns one
C17_InstallStep ==
  (pc = "reinstall" /\ reinstall_packages) =>
    LET req == find_requirements_file(fs, cwd, Parent(virtual_environment)).value
        Runs(what) == {k \in Added : log'[k].op \in {"run", "would_run"} /\ log'[k].what = what} IN
    /\ "pdm.lock" \in parent_files <=> Runs("pdm") # {}
    /\ ("pdm.lock" \notin parent_files /\ req # Nil) <=> Runs("pip") # {}
    /\ \A k \in Runs("pip") : log'[k].path = req
    /\ Cardinality(Runs("pdm") \cup Runs("pip")) <= 1

\* C17: after a rebuild that succeeded at most one installer is issued for the
\* candidate: pdm install exactly when pdm.lock is among the names of the parent
\* directory taken before the environment was removed, otherwise pip install -r
\* on the file exactly when find_requirements_file returns one; with pdm.lock
\* among the names pip is never issued, a requirements.txt being there or not.
C17_OneInstallerLockFirst ==
  [](C17_OneInstaller) /\ [][C17_SnapshotStep /\ C17_InstallStep]_vars

\* C17 witness: pdm install was run for a rebuilt candidate whose project also
\* holds a requirements.txt, and pip was not
C17_Witness ==
  \E i \in Idx :
    /\ Executed(i) /\ log[i].what = "pdm" /\ log[i].ok
    /\ Append(Parent(log[i].env), requirements_name) \in DOMAIN fs
    /\ ~\E j \in Idx : SameCall(i, j) /\ log[j].what = "pip"
    /\ pc = "done"

\* no root is another root or lies beneath one
NonOverlapping ==
  \A i, j \in 1..Len(args.directories) :
    i # j => ~IsUnder(args.directories[i], args.directories[j])

\* the tree is the one the run started on
TreeAsFound == \E su \in Setups : su.fs = fs /\ su.roots = args.directories

\* no directory is listed twice, no environment yielded twice
C18_Once ==
  (NonOverlapping /\ TreeAsFound) =>
    /\ \A i, j \in 1..Len(expanded) : expanded[i] = expanded[j] => i = j
    /\ \A i, j \in 1..Len(yielded) : yielded[i][1] = yielded[j][1] => i = j

\* the generator has ended with nothing left to visit, or was left suspended by
\* an exception of its consumer
Finished ==
  \/ pc = "done" /\ directories = <<>> /\ pending = {}
  \/ pc = "raised" /\ exc.at = "fix_virtual_environment"

\* C18 (as claimed): on a tree that is not modified while it is traversed, given
\* roots none of which is or lies beneath another, find_virtual_environments
\* lists each directory at most once, yields each environment at most once, and
\* ends with the work-list empty.
C18_TraversalTerminatesOnce ==
  [](C18_Once) /\ (NonOverlapping => <>Finished)

\* no environment is yielded twice, none has rm -rf issued twice in a pass
C19_OnceEach ==
  NonOverlapping =>
    /\ \A i, j \in 1..Len(yielded) : yielded[i][1] = yielded[j][1] => i = j
    /\ \A i, j \in Idx :
         (/\ Issued(i) /\ log[i].what = "rm" /\ Issued(j) /\ log[j].what = "rm"
          /\ log[i].pass = log[j].pass /\ log[i].path = log[j].path) => i = j

\* the traversal stands still while a candidate is being processed, and does
\* nothing to the candidate's command log when it moves
C19_Step ==
  /\ virtual_environment # Nil => UNCHANGED find_vars
  /\ (virtual_environment = Nil /\ pc = "find") => log' = log

\* C19: in a run of main with non-overlapping roots each candidate is processed
\* to the end before discovery resumes, and an environment removed and created
\* anew while the traversal is suspended is not yielded again: rm -rf is issued
\* at most once per environment in a pass.
C19_RebuiltNotRediscovered == [](C19_OnceEach) /\ [][C19_Step]_vars

\* C19 witness: a live run rebuilt an environment, then listed a directory of the
\* environment created anew, and ended
C19_Witness ==
  /\ pc = "done" /\ ~args.dry_run /\ NonOverlapping
  /\ \E i, j \in Idx :
       /\ i < j /\ SameCall(i, j)
       /\ Executed(i) /\ log[i].what = "rm" /\ log[i].ok
       /\ Executed(j) /\ log[j].what = "venv" /\ log[j].ok
       /\ \E k, m \in 1..Len(expanded) :
            /\ k < m /\ expanded[k] = Append(log[i].env, "bin")
            /\ IsUnder(expanded[m], log[i].env)
       /\ is_symlink(fs, log[i].env \o <<"bin", "python">>)

====
